---- MODULE Spec2Model ----
(***************************************************************************)
(* Model of the MT4 Expert Advisor of the AI scalping system (the          *)
(* watermark version, src/unnamed/part_000): the tick batch and its        *)
(* upload, the signal poll with validation and execution, and the report   *)
(* of closed trades guarded by the watermark lastLoggedTicket.  The field   *)
(* extraction of the older version (src/mt4/Expert Advisor.mq4) stands     *)
(* beside that of the watermark version.                                   *)
(*                                                                         *)
(* Prices are integers counted in Points (Point = 1).  Times are the       *)
(* millisecond values of GetTickCount(), restricted to the set Instants.   *)
(* The host terminal is the environment: it calls the handlers, moves the  *)
(* clock, answers WebRequest, executes OrderSend and closes positions.     *)
(* A handler that blocks in WebRequest and does not read the clock         *)
(* afterwards takes no time of its own: TimePasses after it is the same.   *)
(***************************************************************************)
EXTENDS Integers, Sequences, FiniteSets, TLC

\* ---------------------------------------------------------------- inputs
MaxSpread == 20
MaxPositions == 3
Slippage == 30
MagicNumber == 123456
signalPollInterval == 500
FlushInterval == 30000
SymbolName == "EURUSD"

\* --------------------------------------------------------------- bounds
\* tickBufferSize is 500 in the source; the model buffers fewer ticks.
tickBufferSize == 2
\* tickets the order-management capability hands out in one behaviour
MaxTicket == 2
\* orders already in the account history when the terminal starts
MaxInitHistory == 1
\* the counters of POSTs per ticket stop here
MaxCount == 2

\* GetTickCount() values the model distinguishes: both sides of the poll
\* interval and of the flush interval, measured from 0 and from 1.
Instants == {0, 1, signalPollInterval, signalPollInterval + 1,
             FlushInterval + 1, FlushInterval + 2}

\* market quotes MarketInfo can return: bid, ask, spread (points), volume
\* and the server time TimeCurrent()
Quotes ==
  { [time |-> 100, bid |-> 10990, ask |-> 11000, spread |-> 10, volume |-> 7],
    [time |-> 101, bid |-> 11020, ask |-> 11045, spread |-> 25, volume |-> 8] }
NoQuote == [time |-> 0, bid |-> 0, ask |-> 0, spread |-> 0, volume |-> 0]

\* an empty string element of tickData (ArrayResize leaves new elements empty)
NoTick == [time |-> 0, bid |-> 0, ask |-> 0, spread |-> 0, volume |-> 0]

\* signals the backend can answer GET /api/signals with, as decoded by
\* CheckForSignals (direction, entry_price, sl, tp)
NoSignal == [direction |-> "", entryPrice |-> 0, sl |-> 0, tp |-> 0]
SignalBodies ==
  { [direction |-> "BUY",  entryPrice |-> 11025, sl |-> 10900, tp |-> 11100],
    [direction |-> "BUY",  entryPrice |-> 11050, sl |-> 10900, tp |-> 11100],
    [direction |-> "SELL", entryPrice |-> 10980, sl |-> 11100, tp |-> 10900],
    [direction |-> "HOLD", entryPrice |-> 11000, sl |-> 0, tp |-> 0] }

\* response bodies: the empty string, some text, text holding the token
\* "healthy", text holding the token "no_signal", a signal payload
EmptyBody == [kind |-> "empty", sig |-> NoSignal]
TextBody == [kind |-> "text", sig |-> NoSignal]
HealthyBody == [kind |-> "healthy", sig |-> NoSignal]
NoSignalBody == [kind |-> "no_signal", sig |-> NoSignal]
SignalBody(s) == [kind |-> "signal", sig |-> s]

\* what WebRequest can do: fail with an error (GetLastError() # 0), or answer
\* with a status code and a body
HttpError == [error |-> TRUE, code |-> 0, body |-> EmptyBody]
HttpAnswers(bodies) ==
  {HttpError} \cup [error : {FALSE}, code : {200, 500}, body : bodies \cup {EmptyBody}]

PostOutcomes == HttpAnswers({TextBody})
HealthOutcomes == HttpAnswers({TextBody, HealthyBody})
SignalOutcomes == HttpAnswers({NoSignalBody} \cup {SignalBody(s) : s \in SignalBodies})

VARIABLES
  attached,          \* the EA is attached: between OnInit and OnDeinit
  EnableTrading,     \* input parameter
  isConnected,
  clock,             \* GetTickCount()
  lastSignalPoll,
  lastTickSend,
  tickData,          \* the array tickData[], a sequence (empty after ArrayFree)
  tickCount,
  lastLoggedTicket,
  openOrders,        \* the trade pool: a set of orders
  history,           \* the history pool, oldest first
  nextTicket,        \* the next ticket the host assigns
  closePosts,        \* ticket -> number of close events POSTed to /api/trades
  closeAcks,         \* ticket -> number of those answered with a non-empty body
  initHistLen,       \* Len(history) at the latest OnInit
  ev                 \* what the latest handler call did

vars == <<attached, EnableTrading, isConnected, clock, lastSignalPoll,
          lastTickSend, tickData, tickCount, lastLoggedTicket, openOrders,
          history, nextTicket, closePosts, closeAcks, initHistLen, ev>>

tickVars == <<lastSignalPoll, lastTickSend, tickData, tickCount>>
orderVars == <<openOrders, history, nextTicket>>
reportVars == <<lastLoggedTicket, closePosts, closeAcks>>

Tickets == 1..MaxTicket

\* ------------------------------------------------------------- helpers
Max2(a, b) == IF a >= b THEN a ELSE b

\* OrderSymbol() == Symbol && OrderMagicNumber() == MagicNumber
Matches(o) == o.symbol = SymbolName /\ o.magic = MagicNumber

\* SendHttpRequest: "" on a WebRequest error, otherwise the response body
\* whatever the status code is
SendHttpRequest(out) == IF out.error THEN EmptyBody ELSE out.body

\* ArrayResize(tickData, n): keeps the elements it has, new ones are empty
ArrayResize(arr, n) ==
  [i \in 1..n |-> IF i <= Len(arr) THEN arr[i] ELSE NoTick]

\* the globals as their initializers leave them (lines 36-44)
InitialGlobals ==
  [lastSignalPoll |-> 0, lastTickSend |-> 0, tickData |-> <<>>, tickCount |-> 0,
   isConnected |-> FALSE, lastLoggedTicket |-> 0]

\* the instants GetTickCount() can show after a blocking call started at t:
\* t itself, or the next instant the model distinguishes
Later(t) ==
  {t} \cup {u \in Instants : u > t /\ \A w \in Instants : w > t => u <= w}

\* StringFormat of one tick: timestamp, bid, ask, spread, volume
TickJson(q) ==
  [time |-> q.time, bid |-> q.bid, ask |-> q.ask, spread |-> q.spread,
   volume |-> q.volume]

\* a collection that does not look at the capacity
CollectUnchecked(data, count, q) ==
  [data |-> [i \in 1..Max2(Len(data), count + 1) |->
               IF i = count + 1 THEN TickJson(q) ELSE data[i]],
   count |-> count + 1, dropped |-> FALSE]

\* a collection that overwrites the newest tick when the buffer is full
CollectOverwrite(data, count, q) ==
  IF count >= tickBufferSize
    THEN [data |-> [data EXCEPT ![count] = TickJson(q)], count |-> count,
          dropped |-> TRUE]
    ELSE [data |-> [data EXCEPT ![count + 1] = TickJson(q)],
          count |-> count + 1, dropped |-> FALSE]

\* CollectTickData: the tick is dropped when the buffer is full
CollectTickData(data, count, q) ==
  IF count >= tickBufferSize
    THEN [data |-> data, count |-> count, dropped |-> TRUE]
    ELSE [data |-> [data EXCEPT ![count + 1] = TickJson(q)],
          count |-> count + 1, dropped |-> FALSE]

\* a poll condition that fires at signalPollInterval and not only after it
PollDueAtInterval(now, last) == now - last >= signalPollInterval

\* OnTick's condition for CheckForSignals
PollDue(now, last) == now - last > signalPollInterval

\* a tick handler that polls whether trading is enabled or not
TradingDueAlways(enabled, now, last) == PollDue(now, last)

\* OnTick calls CheckForSignals when trading is enabled and the poll is due
TradingDue(enabled, now, last) == enabled /\ PollDue(now, last)

\* a flush condition that fires at FlushInterval and not only after it
FlushDueAtInterval(count, now, last) ==
  count >= tickBufferSize \/ now - last >= FlushInterval

\* OnTick's condition for SendTickData
FlushDue(count, now, last) ==
  count >= tickBufferSize \/ now - last > FlushInterval

\* a poll, a flush that did not happen
NoPoll ==
  [sig |-> NoSignal, quote |-> NoQuote, positions |-> 0, verdict |-> "none",
   ticket |-> 0, price |-> 0, openPost |-> "none",
   validations |-> 0, submissions |-> 0, openPosts |-> 0,
   execQuote |-> NoQuote, postedTicket |-> 0, openPrice |-> 0,
   pollError |-> FALSE, openError |-> FALSE]
NoFlush(count, last) ==
  [count |-> count, last |-> last, tried |-> FALSE, ok |-> FALSE, payload |-> <<>>,
   error |-> FALSE, code |-> 0]

\* an upload that resets the buffer and the timer whatever the answer is
SendTickDataAlwaysReset(data, count, last, out, done) ==
  IF count = 0
    THEN NoFlush(count, last)
    ELSE [count |-> 0, last |-> done, tried |-> TRUE,
          ok |-> SendHttpRequest(out) # EmptyBody,
          payload |-> [i \in 1..count |-> data[i]],
          error |-> out.error, code |-> out.code]

\* an upload that restarts the flush timer when it fails
SendTickDataTimerReset(data, count, last, out, done) ==
  IF count = 0
    THEN NoFlush(count, last)
    ELSE LET response == SendHttpRequest(out)
             payload == [i \in 1..count |-> data[i]]
         IN  IF response # EmptyBody
               THEN [count |-> 0, last |-> done, tried |-> TRUE, ok |-> TRUE,
                     payload |-> payload, error |-> out.error, code |-> out.code]
               ELSE [count |-> count, last |-> done, tried |-> TRUE, ok |-> FALSE,
                     payload |-> payload, error |-> out.error, code |-> out.code]

\* an upload that carries the newest tick of the buffer only
SendTickDataNewestOnly(data, count, last, out, done) ==
  IF count = 0
    THEN NoFlush(count, last)
    ELSE LET response == SendHttpRequest(out)
             payload == <<data[count]>>
         IN  IF response # EmptyBody
               THEN [count |-> 0, last |-> done, tried |-> TRUE, ok |-> TRUE,
                     payload |-> payload, error |-> out.error, code |-> out.code]
               ELSE [count |-> count, last |-> last, tried |-> TRUE, ok |-> FALSE,
                     payload |-> payload, error |-> out.error, code |-> out.code]

\* SendTickData: nothing with an empty buffer; otherwise the buffered ticks are
\* uploaded, and a non-empty response resets the buffer and the flush timer.
\* `done` is GetTickCount() when the request has returned.
SendTickData(data, count, last, out, done) ==
  IF count = 0
    THEN NoFlush(count, last)
    ELSE LET response == SendHttpRequest(out)
             payload == [i \in 1..count |-> data[i]]
         IN  IF response # EmptyBody
               THEN [count |-> 0, last |-> done, tried |-> TRUE, ok |-> TRUE,
                     payload |-> payload, error |-> out.error, code |-> out.code]
               ELSE [count |-> count, last |-> last, tried |-> TRUE, ok |-> FALSE,
                     payload |-> payload, error |-> out.error, code |-> out.code]

\* CountOpenPositions: the orders of the trade pool with this symbol and magic
CountOpenPositions(pool) == Cardinality({o \in pool : Matches(o)})

\* a validation that still accepts a signal with MaxPositions positions open
ValidateAtCapacity(direction, entryPrice, currentSpread, bid, ask, openPositions) ==
  IF currentSpread > MaxSpread THEN "spread"
  ELSE IF openPositions > MaxPositions THEN "positions"
  ELSE IF direction # "BUY" /\ direction # "SELL" THEN "direction"
  ELSE IF direction = "BUY" /\ entryPrice > ask + Slippage THEN "buy_price"
  ELSE IF direction = "SELL" /\ entryPrice < bid - Slippage THEN "sell_price"
  ELSE "ok"

\* a validation that checks the direction before the spread and the positions
ValidateDirectionFirst(direction, entryPrice, currentSpread, bid, ask, openPositions) ==
  IF direction # "BUY" /\ direction # "SELL" THEN "direction"
  ELSE IF currentSpread > MaxSpread THEN "spread"
  ELSE IF openPositions >= MaxPositions THEN "positions"
  ELSE IF direction = "BUY" /\ entryPrice > ask + Slippage THEN "buy_price"
  ELSE IF direction = "SELL" /\ entryPrice < bid - Slippage THEN "sell_price"
  ELSE "ok"

\* a validation that rejects an entry price on the slippage bound
ValidateStrictBound(direction, entryPrice, currentSpread, bid, ask, openPositions) ==
  IF currentSpread > MaxSpread THEN "spread"
  ELSE IF openPositions >= MaxPositions THEN "positions"
  ELSE IF direction # "BUY" /\ direction # "SELL" THEN "direction"
  ELSE IF direction = "BUY" /\ entryPrice >= ask + Slippage THEN "buy_price"
  ELSE IF direction = "SELL" /\ entryPrice <= bid - Slippage THEN "sell_price"
  ELSE "ok"

\* ValidateSignal: "ok", or the check that rejected the signal
ValidateSignal(direction, entryPrice, currentSpread, bid, ask, openPositions) ==
  IF currentSpread > MaxSpread THEN "spread"
  ELSE IF openPositions >= MaxPositions THEN "positions"
  ELSE IF direction # "BUY" /\ direction # "SELL" THEN "direction"
  ELSE IF direction = "BUY" /\ entryPrice > ask + Slippage THEN "buy_price"
  ELSE IF direction = "SELL" /\ entryPrice < bid - Slippage THEN "sell_price"
  ELSE "ok"

\* an execution that takes the bid whatever the direction is
ExecutionAtBid(direction, q) == q.bid

\* ExecuteSignal's price: the live ask for BUY, the live bid otherwise
ExecutionPrice(direction, q) == IF direction = "BUY" THEN q.ask ELSE q.bid

\* a health check that takes any answer with a body for a healthy backend
TestBackendConnectionAnyBody(out) == SendHttpRequest(out) # EmptyBody

\* TestBackendConnection
TestBackendConnection(out) ==
  LET response == SendHttpRequest(out)
  IN  response # EmptyBody /\ response.kind = "healthy"

\* a scan that takes the ticket of the most recent matching order
RECURSIVE InitScanLatest(_, _, _)
InitScanLatest(hist, i, last) ==
  IF i = 0 THEN last
  ELSE IF Matches(hist[i]) THEN hist[i].ticket
  ELSE InitScanLatest(hist, i - 1, last)

\* OnInit's scan of the history pool from position i down to 1
RECURSIVE InitScan(_, _, _)
InitScan(hist, i, last) ==
  IF i = 0 THEN last
  ELSE InitScan(hist, i - 1,
                IF Matches(hist[i]) THEN Max2(last, hist[i].ticket) ELSE last)

\* a scan that takes any matching ticket other than the watermark
RECURSIVE FirstNewNotEqual(_, _, _)
FirstNewNotEqual(hist, i, last) ==
  IF i = 0 THEN 0
  ELSE IF Matches(hist[i]) /\ hist[i].ticket # last THEN i
  ELSE FirstNewNotEqual(hist, i - 1, last)

\* a scan from the oldest order up: the position of the oldest order of this
\* symbol and magic with a ticket above the watermark, 0 if none
RECURSIVE FirstNewOldest(_, _, _)
FirstNewOldest(hist, i, last) ==
  IF i = 0 THEN 0
  ELSE LET older == FirstNewOldest(hist, i - 1, last)
       IN  IF older # 0 THEN older
           ELSE IF Matches(hist[i]) /\ hist[i].ticket > last THEN i ELSE 0

\* a scan that takes the most recent matching order no close event was
\* POSTed for, whatever the watermark is
RECURSIVE FirstNewUnposted(_, _, _)
FirstNewUnposted(hist, i, last) ==
  IF i = 0 THEN 0
  ELSE IF Matches(hist[i]) /\ closePosts[hist[i].ticket] = 0 THEN i
  ELSE FirstNewUnposted(hist, i - 1, last)

\* OnTrade's scan from position i down to 1: the position of the first order
\* of this symbol and magic with a ticket above the watermark, 0 if none
RECURSIVE FirstNew(_, _, _)
FirstNew(hist, i, last) ==
  IF i = 0 THEN 0
  ELSE IF Matches(hist[i]) /\ hist[i].ticket > last THEN i
  ELSE FirstNew(hist, i - 1, last)

\* a report that leaves the watermark where it was
KeepWatermark(last, t) == last

\* the watermark OnTrade leaves when it reports ticket t
AdvanceWatermark(last, t) == t

\* the record ev of a handler call that did nothing
NoEv ==
  [op |-> "none", ran |-> FALSE, dropped |-> FALSE,
   polled |-> FALSE, sig |-> NoSignal, quote |-> NoQuote, positions |-> 0,
   verdict |-> "none", ticket |-> 0, price |-> 0, openPost |-> "none",
   validations |-> 0, submissions |-> 0, openPosts |-> 0,
   execQuote |-> NoQuote, postedTicket |-> 0, openPrice |-> 0,
   text |-> <<>>, key |-> <<>>, value |-> <<>>,
   failed |-> {}, flushCode |-> 0, health |-> "none",
   flushTried |-> FALSE, flushOk |-> FALSE, sizeAtCheck |-> 0, nowAtCheck |-> 0,
   payload |-> <<>>, reported |-> 0, reportOk |-> FALSE]

Bump(f, t) == [f EXCEPT ![t] = IF @ < MaxCount THEN @ + 1 ELSE @]

\* ------------------------------------------------------------- orders
\* an order of the pools: ticket, symbol, magic number; att is set on an
\* order of the history pool that closed while the EA was attached
Order(t, sym, magic) == [ticket |-> t, symbol |-> sym, magic |-> magic, att |-> FALSE]
OwnOrder(t) == Order(t, SymbolName, MagicNumber)
ForeignOrders(t) == {Order(t, "GBPUSD", MagicNumber), Order(t, SymbolName, 0)}

\* the history pools the terminal can start with: tickets 1..n, n <= MaxInitHistory
InitHistories ==
  UNION { [1..n -> {OwnOrder(0)} \cup ForeignOrders(0)] : n \in 0..MaxInitHistory }
Renumber(h) == [i \in 1..Len(h) |-> [h[i] EXCEPT !.ticket = i]]

\* ---------------------------------------------------------------- Init
Init ==
  /\ attached = FALSE
  /\ EnableTrading \in BOOLEAN
  /\ isConnected = InitialGlobals.isConnected
  /\ clock = 0
  /\ lastSignalPoll = InitialGlobals.lastSignalPoll
  /\ lastTickSend = InitialGlobals.lastTickSend
  /\ tickData = InitialGlobals.tickData
  /\ tickCount = InitialGlobals.tickCount
  /\ lastLoggedTicket = InitialGlobals.lastLoggedTicket
  /\ openOrders = {}
  /\ \E h \in InitHistories :
       /\ history = Renumber(h)
       /\ nextTicket = Len(h) + 1
  /\ closePosts = [t \in Tickets |-> 0]
  /\ closeAcks = [t \in Tickets |-> 0]
  /\ initHistLen = 0
  /\ ev = NoEv

\* -------------------------------------------------------------- OnInit
\* The terminal loads the program (globals at their initializers) or keeps it
\* loaded (globals as OnDeinit left them), then calls OnInit.
OnInit ==
  /\ ~attached
  /\ \E reload \in BOOLEAN, out \in HealthOutcomes :
       LET g == IF reload THEN InitialGlobals
                ELSE [lastSignalPoll |-> lastSignalPoll, lastTickSend |-> lastTickSend,
                      tickData |-> tickData, tickCount |-> tickCount,
                      isConnected |-> isConnected,
                      lastLoggedTicket |-> lastLoggedTicket]
       IN  /\ tickData' = ArrayResize(g.tickData, tickBufferSize)
           /\ isConnected' = TestBackendConnection(out)
           /\ lastLoggedTicket' = InitScan(history, Len(history), g.lastLoggedTicket)
           /\ lastSignalPoll' = g.lastSignalPoll
           /\ lastTickSend' = g.lastTickSend
           /\ tickCount' = g.tickCount
           /\ ev' = [NoEv EXCEPT !.op = "OnInit", !.ran = TRUE,
                                 !.health = SendHttpRequest(out).kind]
  /\ attached' = TRUE
  /\ initHistLen' = Len(history)
  /\ UNCHANGED <<EnableTrading, clock, orderVars, closePosts, closeAcks>>

\* ------------------------------------------------------------ OnDeinit
OnDeinit ==
  /\ attached
  /\ \E out \in PostOutcomes, done \in Later(clock) :
       LET f == IF tickCount > 0
                  THEN SendTickData(tickData, tickCount, lastTickSend, out, done)
                  ELSE NoFlush(tickCount, lastTickSend)
       IN  /\ tickCount' = f.count
           /\ lastTickSend' = f.last
           /\ clock' = IF f.tried THEN done ELSE clock
           /\ ev' = [NoEv EXCEPT !.op = "OnDeinit", !.ran = TRUE,
                                 !.flushTried = f.tried, !.flushOk = f.ok,
                                 !.sizeAtCheck = tickCount, !.nowAtCheck = clock,
                                 !.payload = f.payload]
  /\ tickData' = <<>>
  /\ attached' = FALSE
  /\ UNCHANGED <<EnableTrading, isConnected, lastSignalPoll, orderVars, reportVars,
                 initHistLen>>

\* ------------------------------------------------------------- OnTrade
\* a trade handler that takes the session offline when its report fails in
\* transport
OnTradeCallDegrading(observed) ==
  /\ attached
  /\ LET i == FirstNew(history, Len(history), lastLoggedTicket)
     IN  IF i = 0
           THEN /\ ev' = [NoEv EXCEPT !.op = "OnTrade", !.ran = TRUE]
                /\ UNCHANGED <<reportVars, isConnected>>
           ELSE \E out \in PostOutcomes :
                  LET t == history[i].ticket
                      ok == SendHttpRequest(out) # EmptyBody
                  IN  /\ lastLoggedTicket' = AdvanceWatermark(lastLoggedTicket, t)
                      /\ closePosts' = Bump(closePosts, t)
                      /\ closeAcks' = IF ok THEN Bump(closeAcks, t) ELSE closeAcks
                      /\ isConnected' = (isConnected /\ ~out.error)
                      /\ ev' = [NoEv EXCEPT !.op = "OnTrade", !.ran = TRUE,
                                            !.reported = t, !.reportOk = ok,
                                            !.failed =
                                              IF observed /\ out.error
                                                THEN {"close"} ELSE {}]
  /\ UNCHANGED <<attached, EnableTrading, clock, tickVars, orderVars, initHistLen>>

\* observed: ev also records how WebRequest answered (failed, flushCode)
OnTradeCall(observed) ==
  /\ attached
  /\ LET i == FirstNew(history, Len(history), lastLoggedTicket)
     IN  IF i = 0
           THEN /\ ev' = [NoEv EXCEPT !.op = "OnTrade", !.ran = TRUE]
                /\ UNCHANGED reportVars
           ELSE \E out \in PostOutcomes :
                  LET t == history[i].ticket
                      ok == SendHttpRequest(out) # EmptyBody
                  IN  /\ lastLoggedTicket' = AdvanceWatermark(lastLoggedTicket, t)
                      /\ closePosts' = Bump(closePosts, t)
                      /\ closeAcks' = IF ok THEN Bump(closeAcks, t) ELSE closeAcks
                      /\ ev' = [NoEv EXCEPT !.op = "OnTrade", !.ran = TRUE,
                                            !.reported = t, !.reportOk = ok,
                                            !.failed =
                                              IF observed /\ out.error
                                                THEN {"close"} ELSE {}]
  /\ UNCHANGED <<attached, EnableTrading, isConnected, clock, tickVars, orderVars,
                 initHistLen>>

OnTrade == OnTradeCall(FALSE)
OnTradeObserved == OnTradeCall(TRUE)

\* -------------------------------------------------------------- OnTick
\* a poll that sends the order a second time when OrderSend fails
CheckForSignalsRetry(out, qv, qe, sent, openOut) ==
  LET response == SendHttpRequest(out)
      none == NoPoll
  IN  IF response = EmptyBody \/ response.kind = "no_signal"
        THEN [none EXCEPT !.pollError = out.error]
        ELSE LET sig == response.sig
                 verdict == ValidateSignal(sig.direction, sig.entryPrice, qv.spread,
                                           qv.bid, qv.ask,
                                           CountOpenPositions(openOrders))
                 price == ExecutionPrice(sig.direction, qe)
                 seen == [none EXCEPT !.sig = sig, !.quote = qv,
                                      !.positions = CountOpenPositions(openOrders),
                                      !.verdict = verdict, !.validations = 1]
                 tried == [seen EXCEPT !.price = price, !.execQuote = qe,
                                       !.submissions = 1]
             IN  IF verdict # "ok"
                   THEN seen
                 ELSE IF sent /\ nextTicket <= MaxTicket
                   THEN [tried EXCEPT !.ticket = nextTicket,
                           !.openPosts = 1, !.postedTicket = nextTicket,
                           !.openPrice = price, !.openError = openOut.error,
                           !.openPost = IF SendHttpRequest(openOut) # EmptyBody
                                          THEN "ok" ELSE "fail"]
                   ELSE [tried EXCEPT !.submissions = 2]

\* a poll that reports the open event again when the report fails
CheckForSignalsRepost(out, qv, qe, sent, openOut) ==
  LET response == SendHttpRequest(out)
      none == NoPoll
  IN  IF response = EmptyBody \/ response.kind = "no_signal"
        THEN [none EXCEPT !.pollError = out.error]
        ELSE LET sig == response.sig
                 verdict == ValidateSignal(sig.direction, sig.entryPrice, qv.spread,
                                           qv.bid, qv.ask,
                                           CountOpenPositions(openOrders))
                 price == ExecutionPrice(sig.direction, qe)
                 seen == [none EXCEPT !.sig = sig, !.quote = qv,
                                      !.positions = CountOpenPositions(openOrders),
                                      !.verdict = verdict, !.validations = 1]
                 tried == [seen EXCEPT !.price = price, !.execQuote = qe,
                                       !.submissions = 1]
                 posted == SendHttpRequest(openOut) # EmptyBody
             IN  IF verdict # "ok"
                   THEN seen
                 ELSE IF sent /\ nextTicket <= MaxTicket
                   THEN [tried EXCEPT !.ticket = nextTicket,
                           !.openPosts = IF posted THEN 1 ELSE 2,
                           !.postedTicket = nextTicket,
                           !.openPrice = price, !.openError = openOut.error,
                           !.openPost = IF posted THEN "ok" ELSE "fail"]
                   ELSE tried

\* CheckForSignals with everything it calls.  out is the answer to the GET,
\* qv the quote ValidateSignal reads, qe the quote ExecuteSignal reads, sent
\* whether OrderSend returns a ticket, openOut the answer to the open report,
\* cap the highest ticket the host hands out.
CheckForSignalsUpTo(cap, out, qv, qe, sent, openOut) ==
  LET response == SendHttpRequest(out)
      none == NoPoll
  IN  IF response = EmptyBody \/ response.kind = "no_signal"
        THEN [none EXCEPT !.pollError = out.error]
        ELSE LET sig == response.sig
                 verdict == ValidateSignal(sig.direction, sig.entryPrice, qv.spread,
                                           qv.bid, qv.ask,
                                           CountOpenPositions(openOrders))
                 price == ExecutionPrice(sig.direction, qe)
                 seen == [none EXCEPT !.sig = sig, !.quote = qv,
                                      !.positions = CountOpenPositions(openOrders),
                                      !.verdict = verdict, !.validations = 1]
                 tried == [seen EXCEPT !.price = price, !.execQuote = qe,
                                       !.submissions = 1]
             IN  IF verdict # "ok"
                   THEN seen
                 ELSE IF sent /\ nextTicket <= cap
                   THEN [tried EXCEPT !.ticket = nextTicket,
                           !.openPosts = 1, !.postedTicket = nextTicket,
                           !.openPrice = price, !.openError = openOut.error,
                           !.openPost = IF SendHttpRequest(openOut) # EmptyBody
                                          THEN "ok" ELSE "fail"]
                   ELSE tried

\* CheckForSignals where the host hands out tickets up to MaxTicket
CheckForSignals(out, qv, qe, sent, openOut) ==
  CheckForSignalsUpTo(MaxTicket, out, qv, qe, sent, openOut)

\* everything one call of CheckForSignals can come to in the current state
PollResults ==
  { CheckForSignals(out, qv, qe, sent, openOut) :
      out \in SignalOutcomes, qv \in Quotes, qe \in Quotes, sent \in BOOLEAN,
      openOut \in PostOutcomes }

\* everything one call of SendTickData can come to
FlushResults(data, count, last, now) ==
  { SendTickData(data, count, last, out, done) :
      out \in PostOutcomes, done \in Later(now) }

\* the same, told apart by the answers of WebRequest only when observed
Polls(observed) ==
  IF observed THEN PollResults
  ELSE {[r EXCEPT !.pollError = FALSE, !.openError = FALSE] : r \in PollResults}
Flushes(observed, data, count, last, now) ==
  IF observed THEN FlushResults(data, count, last, now)
  ELSE {[r EXCEPT !.error = FALSE, !.code = 0] :
          r \in FlushResults(data, count, last, now)}

\* a tick handler that uploads before it polls
OnTickCallFlushFirst(observed) ==
  /\ attached
  /\ IF ~isConnected
       THEN /\ ev' = [NoEv EXCEPT !.op = "OnTick"]
            /\ UNCHANGED <<tickVars, orderVars, clock>>
       ELSE \E qc \in Quotes :
              LET c == CollectTickData(tickData, tickCount, qc)
                  flush == FlushDue(c.count, clock, lastTickSend)
              IN  \E f \in IF flush
                             THEN Flushes(observed, c.data, c.count, lastTickSend,
                                          clock)
                             ELSE {NoFlush(c.count, lastTickSend)} :
                    \E flushed \in IF f.ok THEN {f.last}
                                    ELSE IF f.tried THEN Later(clock) ELSE {clock} :
                      LET poll == EnableTrading /\ PollDue(flushed, lastSignalPoll)
                      IN  \E s \in IF poll THEN Polls(observed) ELSE {NoPoll},
                             polled \in IF poll THEN Later(flushed) ELSE {flushed} :
                            /\ tickData' = c.data
                            /\ tickCount' = f.count
                            /\ lastTickSend' = f.last
                            /\ lastSignalPoll' = IF poll THEN polled
                                                 ELSE lastSignalPoll
                            /\ clock' = polled
                            /\ openOrders' = IF s.ticket > 0
                                               THEN openOrders \cup {OwnOrder(s.ticket)}
                                               ELSE openOrders
                            /\ nextTicket' = IF s.ticket > 0 THEN nextTicket + 1
                                             ELSE nextTicket
                            /\ history' = history
                            /\ ev' = [NoEv EXCEPT !.op = "OnTick", !.ran = TRUE,
                                        !.dropped = c.dropped, !.polled = poll,
                                        !.sig = s.sig, !.quote = s.quote,
                                        !.positions = s.positions,
                                        !.verdict = s.verdict, !.ticket = s.ticket,
                                        !.price = s.price, !.openPost = s.openPost,
                                        !.validations = s.validations,
                                        !.submissions = s.submissions,
                                        !.openPosts = s.openPosts,
                                        !.execQuote = s.execQuote,
                                        !.postedTicket = s.postedTicket,
                                        !.openPrice = s.openPrice,
                                        !.flushTried = f.tried, !.flushOk = f.ok,
                                        !.sizeAtCheck = c.count, !.nowAtCheck = clock,
                                        !.payload = f.payload,
                                        !.flushCode = f.code,
                                        !.failed =
                                          {x \in {"poll"} : s.pollError}
                                            \cup {x \in {"open"} : s.openError}
                                            \cup {x \in {"upload"} : f.error}]
  /\ UNCHANGED <<attached, EnableTrading, isConnected, reportVars, initHistLen>>

\* OnTick: collect, then the poll when it is due, then the upload when it is
\* due; GetTickCount() is read again for each condition
OnTickCall(observed) ==
  /\ attached
  /\ IF ~isConnected
       THEN /\ ev' = [NoEv EXCEPT !.op = "OnTick"]
            /\ UNCHANGED <<tickVars, orderVars, clock>>
       ELSE \E qc \in Quotes :
              LET c == CollectTickData(tickData, tickCount, qc)
                  poll == TradingDue(EnableTrading, clock, lastSignalPoll)
              IN  \E s \in IF poll THEN Polls(observed) ELSE {NoPoll},
                     polled \in IF poll THEN Later(clock) ELSE {clock} :
                    LET flush == FlushDue(c.count, polled, lastTickSend)
                    IN  \E f \in IF flush
                                   THEN Flushes(observed, c.data, c.count,
                                                lastTickSend, polled)
                                   ELSE {NoFlush(c.count, lastTickSend)} :
                          /\ tickData' = c.data
                          /\ tickCount' = f.count
                          /\ lastTickSend' = f.last
                          /\ lastSignalPoll' = IF poll THEN polled ELSE lastSignalPoll
                          /\ clock' \in IF f.ok THEN {f.last}
                                        ELSE IF f.tried THEN Later(polled) ELSE {polled}
                          /\ openOrders' = IF s.ticket > 0
                                             THEN openOrders \cup {OwnOrder(s.ticket)}
                                             ELSE openOrders
                          /\ nextTicket' = IF s.ticket > 0 THEN nextTicket + 1
                                           ELSE nextTicket
                          /\ history' = history
                          /\ ev' = [NoEv EXCEPT !.op = "OnTick", !.ran = TRUE,
                                      !.dropped = c.dropped, !.polled = poll,
                                      !.sig = s.sig, !.quote = s.quote,
                                      !.positions = s.positions,
                                      !.verdict = s.verdict, !.ticket = s.ticket,
                                      !.price = s.price, !.openPost = s.openPost,
                                      !.validations = s.validations,
                                      !.submissions = s.submissions,
                                      !.openPosts = s.openPosts,
                                      !.execQuote = s.execQuote,
                                      !.postedTicket = s.postedTicket,
                                      !.openPrice = s.openPrice,
                                      !.flushTried = f.tried, !.flushOk = f.ok,
                                      !.sizeAtCheck = c.count, !.nowAtCheck = polled,
                                      !.payload = f.payload,
                                      !.flushCode = f.code,
                                      !.failed =
                                        {x \in {"poll"} : s.pollError}
                                          \cup {x \in {"open"} : s.openError}
                                          \cup {x \in {"upload"} : f.error}]
  /\ UNCHANGED <<attached, EnableTrading, isConnected, reportVars, initHistLen>>

OnTick == OnTickCall(FALSE)
OnTickObserved == OnTickCall(TRUE)

\* --------------------------------------------------------- environment
\* time passes between two handler calls
TimePasses ==
  /\ \E u \in Instants : u > clock /\ clock' = u
  /\ ev' = NoEv
  /\ UNCHANGED <<attached, EnableTrading, isConnected, tickVars, orderVars,
                 reportVars, initHistLen>>

\* a position closes (stop loss, take profit, the trader): it moves to the
\* end of the history pool
ClosePosition ==
  /\ \E o \in openOrders :
       /\ openOrders' = openOrders \ {o}
       /\ history' = Append(history, [o EXCEPT !.att = attached])
  /\ ev' = NoEv
  /\ UNCHANGED <<attached, EnableTrading, isConnected, clock, tickVars, nextTicket,
                 reportVars, initHistLen>>

\* somebody else (the trader, another program) opens a position with another
\* symbol or magic number
OpenForeign ==
  /\ nextTicket <= MaxTicket
  /\ \E o \in ForeignOrders(nextTicket) : openOrders' = openOrders \cup {o}
  /\ nextTicket' = nextTicket + 1
  /\ ev' = NoEv
  /\ UNCHANGED <<attached, EnableTrading, isConnected, clock, tickVars, history,
                 reportVars, initHistLen>>

\* ExecuteSignal's OrderSend succeeds: a position of this symbol and magic
\* number opens (the only effect of OnTick on the order pools)
OpenOwn ==
  /\ nextTicket <= MaxTicket
  /\ openOrders' = openOrders \cup {OwnOrder(nextTicket)}
  /\ nextTicket' = nextTicket + 1
  /\ ev' = NoEv
  /\ UNCHANGED <<attached, EnableTrading, isConnected, clock, tickVars, history,
                 reportVars, initHistLen>>

\* the tick pipeline: attach and detach, market ticks, time
Next ==
  \/ OnInit
  \/ OnDeinit
  \/ OnTick
  \/ TimePasses

\* the terminal starts with an empty account history
TickInit == Init /\ history = <<>>

Spec == TickInit /\ [][Next]_vars

\* every handler and the whole environment
FullNext ==
  \/ Next
  \/ OnTrade
  \/ ClosePosition

FullSpec == TickInit /\ [][FullNext]_vars

\* the report of closed trades: attach and detach, trade notifications,
\* positions opening and closing
TradeNext ==
  \/ OnInit
  \/ OnDeinit
  \/ OnTrade
  \/ OpenOwn
  \/ OpenForeign
  \/ ClosePosition

\* with trading enabled, the setting under which the EA opens positions
TradeInit == Init /\ EnableTrading

TradeSpec == TradeInit /\ [][TradeNext]_vars

\* the four requests of a running session (upload, poll, open report, close
\* report) with the answers of WebRequest observed; the clock moves while
\* the requests block
HttpNext ==
  \/ OnInit
  \/ OnTickObserved
  \/ OnTradeObserved
  \/ ClosePosition

HttpInit == TickInit /\ EnableTrading

HttpSpec == HttpInit /\ [][HttpNext]_vars

\* ------------------------------------------- the older version's report
\* OnInit of the older version: the buffer and the health check, no scan of
\* the history pool (the version has no watermark)
OnInitOlder ==
  /\ ~attached
  /\ \E reload \in BOOLEAN, out \in HealthOutcomes :
       LET g == IF reload THEN InitialGlobals
                ELSE [lastSignalPoll |-> lastSignalPoll, lastTickSend |-> lastTickSend,
                      tickData |-> tickData, tickCount |-> tickCount,
                      isConnected |-> isConnected,
                      lastLoggedTicket |-> lastLoggedTicket]
       IN  /\ tickData' = ArrayResize(g.tickData, tickBufferSize)
           /\ isConnected' = TestBackendConnection(out)
           /\ lastSignalPoll' = g.lastSignalPoll
           /\ lastTickSend' = g.lastTickSend
           /\ tickCount' = g.tickCount
           /\ ev' = [NoEv EXCEPT !.op = "OnInit", !.ran = TRUE,
                                 !.health = SendHttpRequest(out).kind]
  /\ attached' = TRUE
  /\ initHistLen' = Len(history)
  /\ UNCHANGED <<EnableTrading, clock, orderVars, reportVars>>

\* the older OnTrade's scan from position i down to 1: the position of the
\* first order of this symbol and magic (OrderCloseTime() > 0 holds of every
\* order of the history pool), 0 if none
RECURSIVE LatestClosed(_, _)
LatestClosed(hist, i) ==
  IF i = 0 THEN 0
  ELSE IF Matches(hist[i]) THEN i
  ELSE LatestClosed(hist, i - 1)

\* OnTrade of the older version: LogClosedTradeToBackend for the most recent
\* matching order of the history pool
OnTradeOlder ==
  /\ attached
  /\ LET i == LatestClosed(history, Len(history))
     IN  IF i = 0
           THEN /\ ev' = [NoEv EXCEPT !.op = "OnTrade", !.ran = TRUE]
                /\ UNCHANGED <<closePosts, closeAcks>>
           ELSE \E out \in PostOutcomes :
                  LET t == history[i].ticket
                      ok == SendHttpRequest(out) # EmptyBody
                  IN  /\ closePosts' = Bump(closePosts, t)
                      /\ closeAcks' = IF ok THEN Bump(closeAcks, t) ELSE closeAcks
                      /\ ev' = [NoEv EXCEPT !.op = "OnTrade", !.ran = TRUE,
                                            !.reported = t, !.reportOk = ok]
  /\ UNCHANGED <<attached, EnableTrading, isConnected, clock, tickVars, orderVars,
                 lastLoggedTicket, initHistLen>>

\* the older version's report of closed trades; its OnDeinit is the one above
OlderNext ==
  \/ OnInitOlder
  \/ OnDeinit
  \/ OnTradeOlder
  \/ OpenOwn
  \/ OpenForeign
  \/ ClosePosition

OlderSpec == TradeInit /\ [][OlderNext]_vars

\* OnTick of the older version: it returns when the session is offline or
\* trading is disabled, and is the OnTick above otherwise
OnTickOlder ==
  IF EnableTrading
    THEN OnTick
    ELSE /\ attached
         /\ ev' = [NoEv EXCEPT !.op = "OnTick"]
         /\ UNCHANGED <<attached, EnableTrading, isConnected, clock, tickVars,
                        orderVars, reportVars, initHistLen>>

\* one session of both versions with trading disabled: the handlers of
\* either version in any order, which holds the behaviours of each
DisabledInit == Init /\ ~EnableTrading

DisabledNext ==
  \/ OnInit
  \/ OnTick
  \/ OnTickOlder
  \/ OnTrade
  \/ OnTradeOlder
  \/ TimePasses

DisabledSpec == DisabledInit /\ [][DisabledNext]_vars

\* one session that stays attached, in which market ticks keep arriving and
\* an upload that is attempted again and again succeeds in the end
UploadSucceeds == OnTick /\ ev'.flushOk

LiveNext ==
  \/ OnInit
  \/ OnTick
  \/ TimePasses

LiveInit == TickInit /\ ~EnableTrading

LiveSpec ==
  LiveInit /\ [][LiveNext]_vars /\ WF_vars(OnTick) /\ SF_vars(UploadSucceeds)

\* ------------------------------------------------- the position limit
\* CheckForSignals on its own, with positions closing in between; the host
\* hands out MaxOrders tickets, more than MaxPositions
MaxOrders == 4

PositionStep ==
  /\ attached /\ isConnected /\ EnableTrading
  /\ \E out \in SignalOutcomes, qv \in Quotes, qe \in Quotes, sent \in BOOLEAN,
        openOut \in PostOutcomes :
       LET s == CheckForSignalsUpTo(MaxOrders, out, qv, qe, sent, openOut)
       IN  /\ openOrders' = IF s.ticket > 0
                              THEN openOrders \cup {OwnOrder(s.ticket)}
                              ELSE openOrders
           /\ nextTicket' = IF s.ticket > 0 THEN nextTicket + 1 ELSE nextTicket
           /\ ev' = [NoEv EXCEPT !.op = "CheckForSignals", !.ran = TRUE,
                       !.polled = TRUE, !.positions = s.positions,
                       !.verdict = s.verdict, !.ticket = s.ticket,
                       !.validations = s.validations,
                       !.submissions = s.submissions]
  /\ UNCHANGED <<attached, EnableTrading, isConnected, clock, tickVars, history,
                 reportVars, initHistLen>>

PositionNext ==
  \/ OnInit
  \/ PositionStep
  \/ ClosePosition

PositionSpec == HttpInit /\ [][PositionNext]_vars

\* ---------------------------------------------------- ValidateSignal
\* ValidateSignal on its own: the trade pool, the quote and the signal are
\* drawn from sets that hold both sides of each of its comparisons.
MaxPool == 4
ValPools ==
  { {OwnOrder(t) : t \in 1..k} \cup f :
      k \in 0..MaxPool,
      f \in {{}, {Order(MaxPool + 1, "GBPUSD", MagicNumber),
                  Order(MaxPool + 2, SymbolName, 0)}} }
ValQuotes ==
  [time : {100}, bid : {10990}, ask : {11000},
   spread : {MaxSpread - 1, MaxSpread, MaxSpread + 1, 25}, volume : {7}]
ValSignals ==
  [direction : {"BUY", "SELL", "HOLD", ""},
   entryPrice : {10990 - Slippage - 1, 10990 - Slippage, 10990 - Slippage + 1,
                 11025, 11000 + Slippage - 1, 11000 + Slippage,
                 11000 + Slippage + 1, 11050},
   sl : {10900}, tp : {11100}]

ValInit ==
  /\ Init
  /\ history = <<>>
  /\ ~EnableTrading

ValidateStep ==
  /\ \E pool \in ValPools, q \in ValQuotes, sig \in ValSignals :
       /\ openOrders' = pool
       /\ ev' = [NoEv EXCEPT !.op = "ValidateSignal", !.ran = TRUE,
                   !.sig = sig, !.quote = q,
                   !.positions = CountOpenPositions(pool),
                   !.verdict = ValidateSignal(sig.direction, sig.entryPrice,
                                              q.spread, q.bid, q.ask,
                                              CountOpenPositions(pool))]
  /\ UNCHANGED <<attached, EnableTrading, isConnected, clock, tickVars, history,
                 nextTicket, reportVars, initHistLen>>

ValSpec == ValInit /\ [][ValidateStep]_vars

\* ------------------------------------------------------------- strings
\* A string is a sequence of one-character strings.  Positions are counted
\* from 0 as in MQL4.
StringLen(s) == Len(s)

\* StringSubstr(s, start, n) for n >= 1: at most n characters from position
\* start, "" when start is outside the string.  No payload of the model makes
\* the code ask for a substring of length 0.
StringSubstr(s, start, n) ==
  IF start < 0 \/ start >= Len(s) \/ n <= 0 THEN <<>>
  ELSE SubSeq(s, start + 1, IF start + n <= Len(s) THEN start + n ELSE Len(s))

\* StringFind(s, sub): the first position where sub occurs in s, -1 if none
StringFind(s, sub) ==
  LET hits == {i \in 0..(Len(s) - Len(sub)) : SubSeq(s, i + 1, i + Len(sub)) = sub}
  IN  IF hits = {} THEN -1 ELSE CHOOSE i \in hits : \A j \in hits : i <= j

Quote == "\""
Digits == <<"0", "1", "2", "3", "4", "5", "6", "7", "8", "9">>
DigitValue(ch) == (CHOOSE i \in 1..10 : Digits[i] = ch) - 1
IsDigit(ch) == \E i \in 1..10 : Digits[i] = ch

\* StringToDouble: the number the string starts with, 0 when it starts with
\* none.  The numbers of the model are whole Points without sign.
RECURSIVE ToNumber(_, _, _)
ToNumber(s, i, acc) ==
  IF i > Len(s) \/ ~IsDigit(s[i]) THEN acc
  ELSE ToNumber(s, i + 1, 10 * acc + DigitValue(s[i]))
StringToDouble(s) == ToNumber(s, 1, 0)

\* ExtractValue, line 478: skip the spaces and quotes in front of the value
RECURSIVE SkipLeading(_, _)
SkipLeading(json, start) ==
  IF StringSubstr(json, start, 1) \in {<<" ">>, <<Quote>>}
    THEN SkipLeading(json, start + 1)
    ELSE start

\* ExtractValue, lines 486-495: the position of the first ',' or '}' at or
\* after end, the length of the string if there is none
RECURSIVE FindEnd(_, _)
FindEnd(json, end) ==
  IF end < StringLen(json) /\ StringSubstr(json, end, 1) \notin {<<",">>, <<"}">>}
    THEN FindEnd(json, end + 1)
    ELSE end

\* ExtractValue, lines 500-503: drop the spaces and quotes at the end
RECURSIVE TrimTrailing(_)
TrimTrailing(value) ==
  IF StringSubstr(value, StringLen(value) - 1, 1) \in {<<" ">>, <<Quote>>}
    THEN TrimTrailing(StringSubstr(value, 0, StringLen(value) - 1))
    ELSE value

\* ExtractValue of the watermark version: a ',' or '}' ends the value
\* wherever it stands
ExtractValue(json, key) ==
  LET search == <<Quote>> \o key \o <<Quote, ":">>
      found == StringFind(json, search)
  IN  IF found = -1 THEN <<>>
      ELSE LET start == SkipLeading(json, found + StringLen(search))
               end == FindEnd(json, start)
           IN  TrimTrailing(StringSubstr(json, start, end - start))

\* ExtractValue of the older version, lines 415-427: a ',' or '}' ends the
\* value only outside a quoted string; a '"' not preceded by '\' opens or
\* closes one
RECURSIVE FindEndQuoted(_, _, _)
FindEndQuoted(json, end, inString) ==
  IF end >= StringLen(json) THEN end
  ELSE LET ch == StringSubstr(json, end, 1)
       IN  IF ch = <<Quote>> /\ (end = 0 \/ StringSubstr(json, end - 1, 1) # <<"\\">>)
             THEN FindEndQuoted(json, end + 1, ~inString)
           ELSE IF ~inString /\ ch \in {<<",">>, <<"}">>}
             THEN end
           ELSE FindEndQuoted(json, end + 1, inString)

\* StringTrimLeft, StringTrimRight: the spaces at either end removed
RECURSIVE StringTrimLeft(_)
StringTrimLeft(s) ==
  IF s # <<>> /\ Head(s) = " " THEN StringTrimLeft(Tail(s)) ELSE s
RECURSIVE StringTrimRight(_)
StringTrimRight(s) ==
  IF s # <<>> /\ s[Len(s)] = " " THEN StringTrimRight(SubSeq(s, 1, Len(s) - 1)) ELSE s

\* ExtractValue of the older version.  It calls StringTrimLeft(value) and
\* StringTrimRight(value) and drops what they return: trimsInPlace tells
\* whether the build's functions change their argument (as in MQL5) or return
\* a trimmed copy (as the MQL4 reference says).
ExtractValueQuoted(json, key, trimsInPlace) ==
  LET search == <<Quote>> \o key \o <<Quote, ":">>
      found == StringFind(json, search)
  IN  IF found = -1 THEN <<>>
      ELSE LET start == found + StringLen(search)
               end == FindEndQuoted(json, start, FALSE)
               cut == StringSubstr(json, start, end - start)
               value == IF trimsInPlace THEN StringTrimRight(StringTrimLeft(cut))
                        ELSE cut
           IN  IF StringSubstr(value, 0, 1) = <<Quote>>
                    /\ StringSubstr(value, StringLen(value) - 1, 1) = <<Quote>>
                 THEN StringSubstr(value, 1, StringLen(value) - 2)
                 ELSE value


\* ------------------------------------------------------ signal payloads
\* the keys CheckForSignals asks ExtractValue for, and a key it does not
KeyDirection == <<"d", "i", "r", "e", "c", "t", "i", "o", "n">>
KeyEntryPrice == <<"e", "n", "t", "r", "y", "_", "p", "r", "i", "c", "e">>
KeySl == <<"s", "l">>
KeyTp == <<"t", "p">>
KeyComment == <<"c", "o", "m", "m", "e", "n", "t">>
KeyStatus == <<"s", "t", "a", "t", "u", "s">>
NoSignalToken == <<"n", "o", "_", "s", "i", "g", "n", "a", "l">>

\* the directions the model tells apart, as the strings of the payload
DirectionTexts ==
  [BUY |-> <<"B", "U", "Y">>, SELL |-> <<"S", "E", "L", "L">>,
   HOLD |-> <<"H", "O", "L", "D">>]

\* the direction string ValidateSignal and ExecuteSignal compare with "BUY"
\* and "SELL"
DirectionOf(s) ==
  IF s = <<>> THEN ""
  ELSE IF \E d \in DOMAIN DirectionTexts : DirectionTexts[d] = s
    THEN CHOOSE d \in DOMAIN DirectionTexts : DirectionTexts[d] = s
    ELSE "other"

\* a whole number as the backend writes it
RECURSIVE NumberText(_)
NumberText(n) ==
  IF n < 10 THEN <<Digits[n + 1]>>
  ELSE NumberText(n \div 10) \o <<Digits[(n % 10) + 1]>>

JsonField(key, value) == <<Quote>> \o key \o <<Quote, ":">> \o value
JsonString(s) == <<Quote>> \o s \o <<Quote>>
RECURSIVE JsonJoin(_)
JsonJoin(fields) ==
  IF fields = <<>> THEN <<>>
  ELSE IF Len(fields) = 1 THEN fields[1]
  ELSE fields[1] \o <<",">> \o JsonJoin(Tail(fields))
JsonObject(fields) == <<"{">> \o JsonJoin(fields) \o <<"}">>

\* the fields of a signal of SignalBodies
SignalFields(s) ==
  << JsonField(KeyDirection, JsonString(DirectionTexts[s.direction])),
     JsonField(KeyEntryPrice, NumberText(s.entryPrice)),
     JsonField(KeySl, NumberText(s.sl)),
     JsonField(KeyTp, NumberText(s.tp)) >>

CommaValue == <<"a", ",", "b">>
CommentField == JsonField(KeyComment, JsonString(CommaValue))

\* what the backend can answer GET /api/signals with: every signal of
\* SignalBodies written out, a signal that carries a comment, payloads that
\* lack fields, the sentinel alone and inside a payload, text that is no
\* payload at all
BuyOnly == JsonObject(<<JsonField(KeyDirection, JsonString(DirectionTexts.BUY))>>)
SentinelInside == JsonObject(<<JsonField(KeyStatus, JsonString(NoSignalToken))>>)
SignalTexts ==
  {JsonObject(SignalFields(s)) : s \in SignalBodies}
    \cup {JsonObject(<<CommentField>> \o SignalFields(s)) : s \in SignalBodies}
    \cup {BuyOnly, SentinelInside, NoSignalToken, <<"o", "o", "p", "s">>,
          JsonObject(<<CommentField>>)}

\* a comparison with the sentinel as a whole
IsNoSignalExact(response) == response = NoSignalToken

\* CheckForSignals, line 218: StringFind(response, "no_signal") >= 0
IsNoSignal(response) == StringFind(response, NoSignalToken) >= 0

\* CheckForSignals, lines 227-230: the signal the fields of the payload give
DecodeSignal(signal) ==
  [direction |-> DirectionOf(ExtractValue(signal, KeyDirection)),
   entryPrice |-> StringToDouble(ExtractValue(signal, KeyEntryPrice)),
   sl |-> StringToDouble(ExtractValue(signal, KeySl)),
   tp |-> StringToDouble(ExtractValue(signal, KeyTp))]

\* the body CheckForSignals works on, from the string SendHttpRequest returned
ResponseBody(response) ==
  IF response = <<>> THEN EmptyBody
  ELSE IF IsNoSignal(response) THEN NoSignalBody
  ELSE SignalBody(DecodeSignal(response))

\* the bodies of the answers of the model, worked out once
ResponseBodies == [text \in SignalTexts \cup {<<>>} |-> ResponseBody(text)]

\* CheckForSignals alone, in a connected session with trading enabled, on the
\* text of the answer
CheckForSignalsStep ==
  /\ attached /\ isConnected /\ EnableTrading
  /\ \E text \in SignalTexts, error \in BOOLEAN, qv \in Quotes, qe \in Quotes,
        sent \in BOOLEAN, openOut \in PostOutcomes :
       LET response == IF error THEN <<>> ELSE text
           out == [error |-> error, code |-> IF error THEN 0 ELSE 200,
                   body |-> ResponseBodies[response]]
           s == CheckForSignals(out, qv, qe, sent, openOut)
       IN  /\ openOrders' = IF s.ticket > 0
                              THEN openOrders \cup {OwnOrder(s.ticket)}
                              ELSE openOrders
           /\ nextTicket' = IF s.ticket > 0 THEN nextTicket + 1 ELSE nextTicket
           /\ ev' = [NoEv EXCEPT !.op = "CheckForSignals", !.ran = TRUE,
                       !.polled = TRUE, !.text = response,
                       !.sig = s.sig, !.quote = s.quote,
                       !.positions = s.positions, !.verdict = s.verdict,
                       !.ticket = s.ticket, !.price = s.price,
                       !.openPost = s.openPost, !.validations = s.validations,
                       !.submissions = s.submissions, !.openPosts = s.openPosts,
                       !.execQuote = s.execQuote, !.postedTicket = s.postedTicket,
                       !.openPrice = s.openPrice]
  /\ UNCHANGED <<attached, EnableTrading, isConnected, clock, tickVars, history,
                 reportVars, initHistLen>>

\* ExtractValue alone, of either version, on the payloads and every key
ExtractKeys == {KeyDirection, KeyEntryPrice, KeySl, KeyTp, KeyComment, KeyStatus}
ExtractedValues ==
  [json \in SignalTexts, key \in ExtractKeys |-> ExtractValue(json, key)]
ExtractedQuotedValues ==
  [json \in SignalTexts, key \in ExtractKeys, trimsInPlace \in BOOLEAN |->
     ExtractValueQuoted(json, key, trimsInPlace)]
ExtractValueStep ==
  /\ \E json \in SignalTexts, key \in ExtractKeys :
       ev' = [NoEv EXCEPT !.op = "ExtractValue", !.ran = TRUE,
                          !.text = json, !.key = key,
                          !.value = ExtractedValues[json, key]]
  /\ UNCHANGED <<attached, EnableTrading, isConnected, clock, tickVars, orderVars,
                 reportVars, initHistLen>>
ExtractValueQuotedStep ==
  /\ \E json \in SignalTexts, key \in ExtractKeys, trimsInPlace \in BOOLEAN :
       ev' = [NoEv EXCEPT !.op = "ExtractValueQuoted", !.ran = TRUE,
                          !.text = json, !.key = key,
                          !.value = ExtractedQuotedValues[json, key, trimsInPlace]]
  /\ UNCHANGED <<attached, EnableTrading, isConnected, clock, tickVars, orderVars,
                 reportVars, initHistLen>>

ParseNext ==
  \/ OnInit
  \/ CheckForSignalsStep
  \/ ExtractValueStep
  \/ ExtractValueQuotedStep

ParseInit == TickInit /\ EnableTrading

ParseSpec == ParseInit /\ [][ParseNext]_vars

\* ---------------------------------------------------------------- types
TypeOK ==
  /\ attached \in BOOLEAN /\ isConnected \in BOOLEAN /\ EnableTrading \in BOOLEAN
  /\ clock \in Instants /\ lastSignalPoll \in Instants /\ lastTickSend \in Instants
  /\ tickCount \in 0..tickBufferSize
  /\ lastLoggedTicket \in 0..MaxTicket

\* ============================================================== claims
SetMax(S) == IF S = {} THEN 0 ELSE CHOOSE m \in S : \A x \in S : x <= m
MatchingTickets(hist) ==
  {hist[i].ticket : i \in {j \in 1..Len(hist) : Matches(hist[j])}}

\* C1: no ticket's close event is POSTed to /api/trades more than once, over
\* any sequence of OnInit, OnDeinit, OnTick and OnTrade calls and any answers
\* of the backend.
C1_NoDuplicateClose == \A t \in Tickets : closePosts[t] <= 1

\* a reported ticket lies in the history of a restarted session and a trade
\* notification has just found nothing to report
C1_Witness ==
  /\ ev.op = "OnTrade" /\ ev.reported = 0
  /\ initHistLen > 0
  /\ \E i \in 1..initHistLen : closePosts[history[i].ticket] = 1

\* C2: every matching position that closed while the EA was attached has its
\* close event delivered exactly once: never twice, and once the reporter
\* finds nothing more to report none is left undelivered.
C2_ExactlyOnceDelivery ==
  /\ \A t \in Tickets : closeAcks[t] <= 1
  /\ (ev.op = "OnTrade" /\ ev.reported = 0) =>
       \A i \in 1..Len(history) :
         (Matches(history[i]) /\ history[i].att) => closeAcks[history[i].ticket] = 1

\* C3: the watermark never decreases, and after every close report it is the
\* maximum ticket ever reported as closed.
C3_WatermarkMonotone ==
  [][ /\ lastLoggedTicket' >= lastLoggedTicket
      /\ (ev'.op = "OnTrade" /\ ev'.reported > 0) =>
           lastLoggedTicket' = SetMax({t \in Tickets : closePosts'[t] > 0}) ]_vars

\* a second report, of a ticket above one reported before
C3_Witness ==
  /\ ev.op = "OnTrade" /\ ev.reported > 0
  /\ \E t \in Tickets : t < ev.reported /\ closePosts[t] > 0

\* C4: OnInit leaves the watermark at the maximum matching ticket of the
\* history pool, and no order that was in the history at the latest OnInit is
\* reported by a later OnTrade.
C4_InitWatermark ==
  /\ ev.op = "OnInit" => lastLoggedTicket = SetMax(MatchingTickets(history))
  /\ (ev.op = "OnTrade" /\ ev.reported > 0) =>
       \A i \in 1..initHistLen : history[i].ticket # ev.reported

\* a report in a session that started with a matching order in the history
C4_Witness ==
  /\ ev.op = "OnTrade" /\ ev.reported > 0
  /\ \E i \in 1..initHistLen : Matches(history[i])

\* C5: the number of buffered ticks stays within 0..tickBufferSize.
C5_BatchWithinCapacity == 0 <= tickCount /\ tickCount <= tickBufferSize

\* a tick arrived at a full buffer
C5_Witness == ev.op = "OnTick" /\ ev.dropped /\ tickCount = tickBufferSize

C7_ClearOnlyOnSuccess ==
  [][ ev'.flushTried =>
        IF ev'.flushOk
          THEN tickCount' = 0 /\ lastTickSend' = clock'
          ELSE /\ tickCount' = ev'.sizeAtCheck
               /\ lastTickSend' = lastTickSend
               /\ ev'.op = "OnTick" =>
                    [i \in 1..tickCount' |-> tickData'[i]] = ev'.payload ]_vars

\* an upload answered with nothing left the buffered ticks in place
C7_Witness ==
  /\ ev.op = "OnTick" /\ ev.flushTried /\ ~ev.flushOk
  /\ tickCount > 0 /\ lastTickSend > 0

\* C8: a tick that arrives at a full batch is dropped, the batch keeps its
\* contents and its size; the upload then attempted leaves the batch full when
\* it fails and empties it when it succeeds.
C8_DropAtCapacity ==
  [][ (ev'.op = "OnTick" /\ isConnected /\ tickCount = tickBufferSize) =>
        /\ ev'.dropped
        /\ tickData' = tickData
        /\ ev'.sizeAtCheck = tickBufferSize
        /\ ev'.flushTried
        /\ IF ev'.flushOk THEN tickCount' = 0 ELSE tickCount' = tickBufferSize ]_vars

\* a tick was dropped at a full batch and the upload that followed emptied it
C8_Witness == ev.op = "OnTick" /\ ev.dropped /\ ev.flushOk /\ tickCount = 0

\* C9: ValidateSignal rejects with the reason of the first failing check, in
\* the order spread, position count, direction, price.
C9_CheckOrder ==
  ev.op = "ValidateSignal" =>
    LET spreadOk == ev.quote.spread <= MaxSpread
        countOk == Cardinality({o \in openOrders :
                      o.symbol = SymbolName /\ o.magic = MagicNumber}) < MaxPositions
        dirOk == ev.sig.direction \in {"BUY", "SELL"}
    IN  /\ (ev.verdict = "spread") <=> ~spreadOk
        /\ (ev.verdict = "positions") <=> (spreadOk /\ ~countOk)
        /\ (ev.verdict = "direction") <=> (spreadOk /\ countOk /\ ~dirOk)
        /\ (ev.verdict \in {"buy_price", "sell_price", "ok"})
             <=> (spreadOk /\ countOk /\ dirOk)

\* the position count rejects a signal whose direction and price are bad too
C9_Witness ==
  /\ ev.op = "ValidateSignal" /\ ev.verdict = "positions"
  /\ ev.positions = MaxPositions /\ ev.sig.direction = "HOLD"
  /\ Cardinality(openOrders) > MaxPositions

\* C10: past the first three checks a BUY is accepted exactly when
\* entryPrice <= ask + Slippage and a SELL exactly when
\* entryPrice >= bid - Slippage.
C10_PriceBound ==
  (/\ ev.op = "ValidateSignal"
   /\ ev.quote.spread <= MaxSpread
   /\ ev.positions < MaxPositions
   /\ ev.sig.direction \in {"BUY", "SELL"}) =>
    /\ ev.sig.direction = "BUY" =>
         /\ (ev.verdict = "ok") <=> (ev.sig.entryPrice <= ev.quote.ask + Slippage)
         /\ (ev.verdict = "buy_price") <=> (ev.sig.entryPrice > ev.quote.ask + Slippage)
    /\ ev.sig.direction = "SELL" =>
         /\ (ev.verdict = "ok") <=> (ev.sig.entryPrice >= ev.quote.bid - Slippage)
         /\ (ev.verdict = "sell_price") <=> (ev.sig.entryPrice < ev.quote.bid - Slippage)

\* a BUY on the bound is accepted
C10_Witness ==
  /\ ev.op = "ValidateSignal" /\ ev.verdict = "ok"
  /\ ev.sig.direction = "BUY" /\ ev.sig.entryPrice = ev.quote.ask + Slippage

\* C11: a handler call validates at most once and submits at most one order,
\* both only in a call that polled and for the signal that poll fetched; a
\* call that does not poll validates nothing, submits nothing and opens no
\* position, whatever an earlier poll rejected or failed to execute.
C11_SignalUsedOnce ==
  [][ /\ ev'.validations <= 1 /\ ev'.submissions <= 1
      /\ ev'.validations = 1 => (ev'.op = "OnTick" /\ ev'.polled)
      /\ ev'.submissions = 1 => (ev'.validations = 1 /\ ev'.verdict = "ok")
      /\ ~ev'.polled =>
           /\ ev'.validations = 0 /\ ev'.submissions = 0 /\ ev'.sig = NoSignal
           /\ openOrders' = openOrders /\ nextTicket' = nextTicket
      /\ ev'.verdict \notin {"none", "ok"} =>
           /\ ev'.submissions = 0
           /\ openOrders' = openOrders /\ nextTicket' = nextTicket
      /\ (ev'.submissions = 1 /\ ev'.ticket = 0) =>
           /\ openOrders' = openOrders /\ nextTicket' = nextTicket ]_vars

\* the order of a valid signal was refused and the poll ended there
C11_Witness ==
  /\ ev.op = "OnTick" /\ ev.polled /\ ev.verdict = "ok"
  /\ ev.submissions = 1 /\ ev.ticket = 0 /\ nextTicket <= MaxTicket

\* C12 as stated: once the poll interval has elapsed while the session is
\* connected and trading is enabled, the poll is the next thing that happens
\* (short of a teardown), whether or not a market tick arrives.
C12_PollOnTimer ==
  [][ (attached /\ isConnected /\ EnableTrading
         /\ clock - lastSignalPoll > signalPollInterval) =>
        (ev'.polled \/ ~attached') ]_vars

\* C12 amended: a poll is issued by the tick handler only, on a tick that
\* arrives while the session is connected and trading is enabled, and exactly
\* when more than signalPollInterval ms have passed since lastSignalPoll; the
\* poll sets lastSignalPoll to the time it returned.
C12_PollOnTick ==
  [][ /\ ev'.polled <=>
           (/\ ev'.op = "OnTick" /\ attached /\ isConnected /\ EnableTrading
            /\ clock - lastSignalPoll > signalPollInterval)
      /\ IF ev'.polled THEN lastSignalPoll' = ev'.nowAtCheck
                       ELSE lastSignalPoll' = lastSignalPoll \/ ev'.op = "OnInit" ]_vars

\* a poll issued on a tick that arrived long after the interval had elapsed
C12_Witness ==
  /\ ev.op = "OnTick" /\ ev.polled
  /\ lastSignalPoll > signalPollInterval + 1

\* C16: an order is submitted at the ask ExecuteSignal reads for a BUY and at
\* the bid it reads for a SELL, and the open_price reported to the backend is
\* the price of the submission.
C16_LivePrice ==
  /\ ev.submissions > 0 =>
       /\ ev.sig.direction = "BUY" => ev.price = ev.execQuote.ask
       /\ ev.sig.direction = "SELL" => ev.price = ev.execQuote.bid
       /\ ev.sig.direction \in {"BUY", "SELL"}
  /\ ev.openPosts > 0 => ev.openPrice = ev.price

\* a BUY validated on one quote was executed and reported at the ask of a
\* later quote, which is not the signal's entry price
C16_Witness ==
  /\ ev.op = "OnTick" /\ ev.ticket > 0 /\ ev.sig.direction = "BUY"
  /\ ev.execQuote # ev.quote
  /\ ev.openPrice = ev.execQuote.ask /\ ev.openPrice # ev.sig.entryPrice

\* C17: a submission that returns a ticket is followed in the same handler
\* call by exactly one open report carrying that ticket, whether the report
\* is accepted or not; a submission that fails is followed by no report and no
\* second submission.
C17_OpenReportOnce ==
  /\ ev.submissions <= 1
  /\ ev.ticket > 0 =>
       /\ ev.submissions = 1 /\ ev.openPosts = 1 /\ ev.postedTicket = ev.ticket
       /\ ev.openPost \in {"ok", "fail"}
       /\ ev.ticket = nextTicket - 1 /\ OwnOrder(ev.ticket) \in openOrders
  /\ ev.ticket = 0 =>
       ev.openPosts = 0 /\ ev.postedTicket = 0 /\ ev.openPost = "none"

\* the open report of a new ticket failed and was not sent again
C17_Witness ==
  /\ ev.op = "OnTick" /\ ev.ticket > 0 /\ ev.openPost = "fail" /\ ev.openPosts = 1

\* C19: OnInit leaves the tick batch empty and the watermark at the maximum
\* matching ticket of the history pool.
C19_ResetOnInit ==
  ev.op = "OnInit" =>
    /\ tickCount = 0
    /\ lastLoggedTicket = SetMax(MatchingTickets(history))

\* C18: an upload that ends in a WebRequest error or is answered with a
\* status other than 200 and 201 leaves tickCount and lastTickSend as they
\* were, whatever the body of the answer is.
C18_NetworkErrorKeepsBatch ==
  [][ (ev'.flushTried /\ ("upload" \in ev'.failed \/ ev'.flushCode \notin {200, 201})) =>
        /\ ~ev'.flushOk
        /\ tickCount' = ev'.sizeAtCheck
        /\ lastTickSend' = lastTickSend ]_vars

\* C20: when a request of a handler call (upload, poll, open report, close
\* report) ends in a WebRequest error while the session is connected, the
\* connection state leaves Connected.
C20_DegradedOnTransportError ==
  [][ (attached /\ isConnected /\ ev'.failed # {}) => ~isConnected' ]_vars

\* the keys a signal must carry, and the payloads that lack one of them
RequiredKeys == {KeyDirection, KeyEntryPrice, KeySl, KeyTp}
LacksField(text) ==
  \E key \in RequiredKeys : StringFind(text, <<Quote>> \o key \o <<Quote, ":">>) = -1

\* C13: a response that is not empty, does not hold the sentinel and lacks a
\* required field leads to no order and no open report.
C13_MalformedIsNoSignal ==
  (/\ ev.op = "CheckForSignals"
   /\ ev.text # <<>> /\ StringFind(ev.text, NoSignalToken) = -1
   /\ LacksField(ev.text)) =>
    /\ ev.submissions = 0 /\ ev.ticket = 0
    /\ ev.openPosts = 0

\* C14 as stated: a poll goes without validation exactly when the response
\* is empty (or the request failed) or is equal to the sentinel no_signal.
C14_SentinelEqual ==
  ev.op = "CheckForSignals" =>
    (ev.validations = 0 <=> (ev.text = <<>> \/ ev.text = NoSignalToken))

\* C14 amended: in the watermark version a poll goes without validation (and
\* so without an order) exactly when the response is empty (or the request
\* failed) or holds the sentinel no_signal anywhere in it; every other
\* response is decoded and validated once.
C14_SentinelContained ==
  ev.op = "CheckForSignals" =>
    /\ ev.validations = 0 <=>
         (ev.text = <<>> \/ \E i \in 1..(Len(ev.text) - Len(NoSignalToken) + 1) :
            SubSeq(ev.text, i, i + Len(NoSignalToken) - 1) = NoSignalToken)
    /\ ev.validations = 0 => (ev.submissions = 0 /\ ev.sig = NoSignal)
    /\ ev.validations \in {0, 1}
    /\ \A s \in SignalBodies :
         ev.text = JsonObject(SignalFields(s)) => (ev.validations = 1 /\ ev.sig = s)

\* a payload that holds the sentinel in a field went without validation
C14_Witness ==
  /\ ev.op = "CheckForSignals" /\ ev.validations = 0
  /\ ev.text # <<>> /\ ev.text # NoSignalToken /\ Head(ev.text) = "{"

\* C15: ExtractValue of either version, asked for a key whose value is the
\* quoted string "a,b", returns a,b.
C15_QuotedComma ==
  (/\ ev.op \in {"ExtractValue", "ExtractValueQuoted"}
   /\ ev.key = KeyComment
   /\ StringFind(ev.text, CommentField) >= 0) =>
    ev.value = CommaValue

\* the older version alone returns a,b
C15_OlderVersionOnly ==
  (/\ ev.op = "ExtractValueQuoted"
   /\ ev.key = KeyComment
   /\ StringFind(ev.text, CommentField) >= 0) =>
    ev.value = CommaValue

\* C21: after OnInit the session is connected exactly when the GET to
\* /api/health returned a non-empty response that holds "healthy"; a failed
\* request, an empty response and a response without the token leave it offline
C21_ConnectedIffHealthy ==
  ev.op = "OnInit" =>
    /\ isConnected <=> ev.health = "healthy"
    /\ ev.health \in {"empty", "text"} => ~isConnected
C21_Witness == ev.op = "OnInit" /\ ev.health = "text" /\ ~isConnected

\* C22: OnDeinit with a non-empty batch makes one upload attempt that carries
\* the tickCount buffered ticks, first collected first, before the buffer is
\* released, connected or not; with an empty batch it attempts no upload
C22_TeardownFlush ==
  [][ev'.op = "OnDeinit" =>
       /\ ev'.flushTried <=> tickCount > 0
       /\ ev'.flushTried =>
            /\ Len(ev'.payload) = tickCount
            /\ \A i \in 1..tickCount : ev'.payload[i] = tickData[i]
       /\ ~ev'.flushTried => ev'.payload = <<>>
       /\ tickData' = <<>>
       /\ ~attached']_vars
C22_Witness ==
  /\ ev.op = "OnDeinit" /\ ev.flushTried
  /\ Len(ev.payload) = 2 /\ ev.payload[1].time < ev.payload[2].time

\* positions of the history pool OnTrade can report: orders of this symbol and
\* magic with a ticket above the watermark
Reportable(hist, last) ==
  {i \in 1..Len(hist) : Matches(hist[i]) /\ hist[i].ticket > last}

\* position of ticket t in the history pool, 0 if it is not there
PositionOf(hist, t) == SetMax({i \in 1..Len(hist) : hist[i].ticket = t})

\* C24: an OnTrade call reports at most one close: the most recent order of
\* the history pool with this symbol and magic and a ticket above the
\* watermark; it sets the watermark to that ticket; when no order qualifies it
\* reports nothing and leaves the watermark as it was
C24_OneClosePerNotification ==
  [][ev'.op = "OnTrade" =>
       LET cands == Reportable(history, lastLoggedTicket)
       IN  IF cands = {}
             THEN /\ ev'.reported = 0
                  /\ lastLoggedTicket' = lastLoggedTicket
                  /\ closePosts' = closePosts
             ELSE LET t == history[SetMax(cands)].ticket
                  IN  /\ ev'.reported = t
                      /\ lastLoggedTicket' = t
                      /\ \A u \in Tickets :
                           closePosts'[u] = IF u = t /\ closePosts[u] < MaxCount
                                              THEN closePosts[u] + 1
                                              ELSE closePosts[u]]_vars

\* a report made while an older order of the history pool qualified as well
C24_Witness ==
  /\ ev.op = "OnTrade" /\ ev.reported > 0
  /\ \E i \in 1..Len(history) :
       /\ i < PositionOf(history, ev.reported)
       /\ Matches(history[i]) /\ history[i].att
       /\ closePosts[history[i].ticket] = 0

C26_OlderNoDuplicate ==
  [][(ev'.op = "OnTrade" /\ ev'.reported > 0) => closePosts[ev'.reported] = 0]_vars

\* the batch as CollectTickData leaves it on a tick of a connected session
CountAfterCollect ==
  IF tickCount >= tickBufferSize THEN tickCount ELSE tickCount + 1

\* C27 as stated: within one tick the upload comes before the poll: the flush
\* condition is evaluated with the time the tick arrived at, and on a tick
\* that uploads and polls the upload has returned when the poll returns
C27_FlushBeforePoll ==
  [][(ev'.op = "OnTick" /\ ev'.ran) =>
       /\ ev'.flushTried <=> FlushDue(CountAfterCollect, clock, lastTickSend)
       /\ (ev'.polled /\ ev'.flushOk) => lastTickSend' <= lastSignalPoll']_vars

\* C27, amended: within one tick the order is collect, poll, upload: the poll
\* condition is evaluated with the time the tick arrived at, the flush
\* condition with the time the poll returned at, the upload carries the tick
\* just collected, and it returns no earlier than the poll did
C27_PollBeforeFlush ==
  [][(ev'.op = "OnTick" /\ ev'.ran) =>
       /\ ev'.polled <=> (EnableTrading /\ PollDue(clock, lastSignalPoll))
       /\ ev'.polled => clock <= lastSignalPoll'
       /\ ev'.flushTried <=>
            FlushDue(CountAfterCollect,
                     IF ev'.polled THEN lastSignalPoll' ELSE clock, lastTickSend)
       /\ ev'.flushTried =>
            /\ Len(ev'.payload) = CountAfterCollect
            /\ \A i \in 1..Len(ev'.payload) : ev'.payload[i] = tickData'[i]
       /\ (ev'.polled /\ ev'.flushOk) => lastSignalPoll' <= lastTickSend']_vars

\* a tick that polled and then uploaded a batch below capacity, the poll
\* returning before the upload did
C27_Witness ==
  /\ ev.op = "OnTick" /\ ev.polled /\ ev.flushOk
  /\ lastSignalPoll < lastTickSend
  /\ ev.sizeAtCheck < tickBufferSize

\* the flush condition holds of the batch and the clock as they stand
FlushPending == FlushDue(tickCount, clock, lastTickSend)

\* C28 as stated: the tick after a failed upload attempts an upload of the
\* unchanged batch
C28_RetryUnchangedBatch ==
  [][(/\ ev.op = "OnTick" /\ ev.flushTried /\ ~ev.flushOk
      /\ ev'.op = "OnTick" /\ ev'.ran) =>
       (ev'.flushTried /\ ev'.payload = ev.payload)]_vars

\* C28, amended: a failed upload leaves tickCount and lastTickSend as they
\* were, so the flush condition still holds after it; it keeps holding until
\* an upload succeeds or the session ends; while it holds every processed
\* tick attempts an upload, of the batch of the failed attempt followed by the
\* tick collected since when the batch was below capacity
C28_RetryUntilSuccess ==
  [][ /\ (ev'.op \in {"OnTick", "OnDeinit"} /\ ev'.flushTried /\ ~ev'.flushOk) =>
           /\ lastTickSend' = lastTickSend
           /\ tickCount' = ev'.sizeAtCheck
           /\ ev'.op = "OnTick" => FlushPending'
      /\ (FlushPending /\ ev'.op \notin {"OnInit", "OnDeinit"} /\ ~ev'.flushOk) =>
           FlushPending'
      /\ (FlushPending /\ ev'.op = "OnTick" /\ ev'.ran) =>
           /\ ev'.flushTried
           /\ Len(ev'.payload) = CountAfterCollect
           /\ \A i \in 1..tickCount : ev'.payload[i] = tickData[i] ]_vars

\* a tick found the buffer full, which a failed upload left so, dropped its
\* tick, retried the upload of the same batch and failed again
C28_Witness ==
  /\ ev.op = "OnTick" /\ ev.dropped /\ ev.flushTried /\ ~ev.flushOk
  /\ Len(ev.payload) = tickBufferSize
  /\ FlushPending

\* C29: isConnected is written by OnInit only; a session whose health check
\* failed ignores every tick (nothing collected, uploaded, polled or ordered);
\* a session whose health check succeeded stays connected through every
\* failed request
C29_ConnectedSetAtInitOnly ==
  [][ /\ ev'.op # "OnInit" => isConnected' = isConnected
      /\ (ev'.op = "OnTick" /\ ~isConnected) =>
           /\ ~ev'.ran /\ ~ev'.polled /\ ~ev'.flushTried
           /\ ev'.submissions = 0 /\ ev'.failed = {}
           /\ UNCHANGED <<tickVars, orderVars, clock>>
      /\ (isConnected /\ ev'.op \in {"OnTick", "OnTrade"} /\ ev'.failed # {}) =>
           isConnected' ]_vars

\* a request of a connected session failed in transport and the session is
\* still connected
C29_Witness ==
  /\ ev.op \in {"OnTick", "OnTrade"} /\ ev.failed # {} /\ isConnected

\* C30: with the positions of this symbol and magic number opened by the EA
\* only, their number never exceeds MaxPositions, and a position opens only
\* while fewer than MaxPositions are open
C30_PositionLimit ==
  /\ Cardinality({o \in openOrders :
                    o.symbol = SymbolName /\ o.magic = MagicNumber}) <= MaxPositions
  /\ ev.ticket > 0 => ev.positions < MaxPositions

\* MaxPositions positions are open and a signal has just been rejected for it
C30_Witness ==
  /\ ev.op = "CheckForSignals" /\ ev.verdict = "positions"
  /\ Cardinality({o \in openOrders : Matches(o)}) = MaxPositions
  /\ history # <<>>

\* C31: while EnableTrading is false no handler of either version requests
\* /api/signals, validates a signal, calls OrderSend or reports an open event,
\* and the order pool and the poll timer stay as they are
C31_NoTradingWhenDisabled ==
  [][~EnableTrading =>
       /\ ~ev'.polled /\ ev'.validations = 0
       /\ ev'.submissions = 0 /\ ev'.ticket = 0
       /\ ev'.openPosts = 0 /\ ev'.openPost = "none"
       /\ "poll" \notin ev'.failed /\ "open" \notin ev'.failed
       /\ UNCHANGED <<openOrders, nextTicket>>
       /\ (ev'.op \in {"OnTick", "OnTrade"} => lastSignalPoll' = lastSignalPoll)]_vars

\* a tick was processed with trading disabled while the poll was overdue
C31_Witness ==
  /\ ~EnableTrading /\ ev.op = "OnTick" /\ ev.ran
  /\ PollDue(clock, lastSignalPoll)

\* C32: no appended tick is lost under transient upload failures: the batch
\* shrinks on a tick only by an upload the backend accepted (no WebRequest
\* error, status 200 or 201), which carries the whole batch, and an accepted
\* upload empties the batch, so that no tick is uploaded twice
C32_NoTickLost ==
  [][(ev'.op = "OnTick" /\ ev'.ran) =>
       LET accepted == /\ ev'.flushTried /\ "upload" \notin ev'.failed
                       /\ ev'.flushCode \in {200, 201}
       IN  /\ tickCount' < ev'.sizeAtCheck =>
                (accepted /\ Len(ev'.payload) = ev'.sizeAtCheck)
           /\ accepted => tickCount' = 0]_vars

\* with "successful" read the way SendTickData reads it (any non-empty
\* response), in a session that stays attached: a tick is appended behind the
\* batch, a failed upload and the passing of time leave the batch as it is, a
\* successful upload carries the whole batch in order and empties it, and a
\* non-empty batch is uploaded in the end
C32_NoTickLostOnResponse ==
  /\ [][ LET old == SubSeq(tickData, 1, tickCount)
             new == SubSeq(tickData', 1, tickCount')
             collected == IF ev'.dropped THEN old
                          ELSE Append(old, tickData'[tickCount + 1])
         IN  IF ev'.op = "OnTick" /\ ev'.ran
               THEN /\ ~ev'.dropped =>
                         tickData'[tickCount + 1] \in {TickJson(q) : q \in Quotes}
                    /\ ev'.flushOk => (ev'.payload = collected /\ new = <<>>)
                    /\ ~ev'.flushOk => new = collected
               ELSE new = old ]_vars
  /\ (attached /\ isConnected /\ tickCount > 0) ~> (ev.flushOk /\ tickCount = 0)
====
